---- MODULE Spec2Model ----
(***************************************************************************)
(* CourseThing: the course / chapter / lesson hierarchy, the completion    *)
(* store of the course router, and the learner page (/learn) with its      *)
(* lesson ordering, lesson locking and lesson selection.                   *)
(***************************************************************************)
EXTENDS Integers, Sequences, FiniteSets, TLC

\* ------------------------------------------------------------------ bounds
\* lessons the authoring side creates
MaxLessons == 2
\* chapters the authoring side creates
MaxChapters == 1
\* completion-store requests, one tick of the database clock each
MaxClock == 3
\* characters of the ADMIN_EMAILS value tried
MaxListLen == 3
\* characters of the email tried against it
MaxEmailLen == 2
\* chapters the course manager keeps in one course
MaxManagedChapters == 3

\* --------------------------------------------------------------- universes
NULL == "null"
Users == {"u1", "u2"}
CourseIds == {"c1", "c2"}
Statuses == {"DRAFT", "PUBLISHED", "ARCHIVED"}
\* the statuses authoring calls pass: ARCHIVED is read like DRAFT everywhere
\* (every test is status === "PUBLISHED")
AuthoredStatuses == {"PUBLISHED", "DRAFT"}
\* the course the learner page is opened on (?course=<slug>)
LearnCourse == "c1"
\* the signed-in learner of the learner page
Learner == "u1"

VARIABLES
  courses,                \* Course rows (id = slug)
  courseAudience,         \* Course.audience per course: "FREE" or NULL
  chapters,               \* Chapter rows
  lessons,                \* Lesson rows
  completions,            \* LessonCompletion rows
  clock,                  \* CURRENT_TIMESTAMP of the database
  lastCall,               \* the last completion-store call and the store before it
  session,                \* next-auth session of the learner page's viewer
  course,                 \* courseQuery.data of the learner page
  completedLessonIds,     \* getLessonCompletions query data (default [])
  refetchPending,         \* a getLessonCompletions fetch is in flight
  activeId,               \* useState activeId
  lockedAttempt,          \* useState lockedAttempt (lesson id or NULL)
  optimisticCompletedIds, \* useState optimisticCompletedIds (null or ids)
  urlLesson,              \* search param "lesson"
  urlChapter,             \* search param "chapter"
  home,                   \* the home page as last rendered (continueCourseSlug)
  verification,           \* the subscription verification of the session callback
  routerCall,             \* the last course-router call recorded and its outcome
  adminCheck,             \* the last isAdminEmail evaluation recorded
  gateCall,               \* the last /dashboard request recorded and its response
  tabs,                   \* per browser tab: its completion call in flight
  lastWrite               \* per (user, lesson): the last write statement applied

dbVars == <<courses, courseAudience, chapters, lessons>>
storeVars == <<completions, clock, lastCall>>
pageVars == <<session, course, completedLessonIds, refetchPending, activeId,
              lockedAttempt, optimisticCompletedIds, urlLesson, urlChapter>>
accessVars == <<adminCheck, gateCall>>
raceVars == <<tabs, lastWrite>>
requestVars == <<home, verification, routerCall, accessVars, raceVars>>
vars == <<dbVars, storeVars, pageVars, requestVars>>

\* ------------------------------------------------------------------ helpers
LessonIdOf(n) == "L" \o ToString(n)
ChapterIdOf(n) == "K" \o ToString(n)
ChapterSlugOf(n) == "k" \o ToString(n)

RECURSIVE SeqsOf(_)
\* every sequence that enumerates the finite set S exactly once
SeqsOf(S) ==
  IF S = {} THEN {<<>>}
  ELSE UNION {{<<x>> \o t : t \in SeqsOf(S \ {x})} : x \in S}

\* rows as Postgres may return them for ORDER BY "order" ASC: any enumeration
\* sorted by order, the order of ties being unspecified
OrderByAsc(S) ==
  {s \in SeqsOf(S) : \A i \in 1..(Len(s) - 1) : s[i].order <= s[i + 1].order}

RECURSIVE InsertSorted(_, _)
InsertSorted(x, s) ==
  IF s = <<>> THEN <<x>>
  ELSE IF s[Len(s)].order <= x.order THEN Append(s, x)
  ELSE Append(InsertSorted(x, SubSeq(s, 1, Len(s) - 1)), s[Len(s)])

RECURSIVE SortByOrder(_)
\* Array.prototype.sort((a, b) => a.order - b.order): a stable sort
SortByOrder(s) ==
  IF s = <<>> THEN <<>>
  ELSE InsertSorted(s[Len(s)], SortByOrder(SubSeq(s, 1, Len(s) - 1)))

\* Array.prototype.filter
Filter(s, Keep(_)) == SelectSeq(s, Keep)

\* Array.prototype.find on ids: the first element with P, or NULL
FindId(s, P(_)) ==
  IF \E i \in 1..Len(s) : P(s[i])
  THEN s[CHOOSE i \in 1..Len(s) : P(s[i]) /\ \A j \in 1..(i - 1) : ~P(s[j])].id
  ELSE NULL

\* Array.prototype.findIndex (1-based, 0 when absent)
FindIndex(s, P(_)) ==
  IF \E i \in 1..Len(s) : P(s[i])
  THEN CHOOSE i \in 1..Len(s) : P(s[i]) /\ \A j \in 1..(i - 1) : ~P(s[j])
  ELSE 0

\* ------------------------------------------------------------ the database
LessonById(id) == CHOOSE l \in lessons : l.id = id
LessonExists(id) == \E l \in lessons : l.id = id
ChapterExists(id) == \E c \in chapters : c.id = id

\* the id a new row gets (@default(cuid())): the first one not in use
FreshLessonNo ==
  CHOOSE n \in 1..(Cardinality(lessons) + 1) :
    /\ \A l \in lessons : l.id # LessonIdOf(n)
    /\ \A m \in 1..(n - 1) : \E l \in lessons : l.id = LessonIdOf(m)
FreshLessonId == LessonIdOf(FreshLessonNo)
FreshChapterNo ==
  CHOOSE n \in 1..(Cardinality(chapters) + 1) :
    /\ \A c \in chapters : c.id # ChapterIdOf(n)
    /\ \A m \in 1..(n - 1) : \E c \in chapters : c.id = ChapterIdOf(m)

\* courseRouter.addLesson: BAD_REQUEST without a parent; lesson.create stores
\* both courseId and chapterId as given (a missing chapter fails the
\* Lesson_chapterId_fkey, in the fallback create as well)
AddLesson(courseId, chapterId, status, order) ==
  /\ Cardinality(lessons) < MaxLessons
  /\ ~(courseId = NULL /\ chapterId = NULL)
  /\ courseId # NULL => courseId \in courses
  /\ chapterId # NULL => ChapterExists(chapterId)
  /\ lessons' = lessons \cup
       {[id |-> FreshLessonId, courseId |-> courseId,
         chapterId |-> chapterId, status |-> status, order |-> order]}
  /\ UNCHANGED <<courses, courseAudience, chapters>>

\* chapter.create (Chapter_courseId_fkey wants the course)
ChapterCreate(courseId, order) ==
  /\ courseId \in courses
  /\ chapters' = chapters \cup
       {[id |-> ChapterIdOf(FreshChapterNo),
         slug |-> ChapterSlugOf(FreshChapterNo),
         courseId |-> courseId, order |-> order]}
  /\ UNCHANGED <<courses, courseAudience, lessons>>

\* courseRouter.createChapter
CreateChapter(courseId, order) ==
  /\ Cardinality(chapters) < MaxChapters
  /\ ChapterCreate(courseId, order)

\* ----------------------------------------------------- the completion store
HasCompletion(store, u, l) ==
  \E c \in store : c.userId = u /\ c.lessonId = l

\* an upsert that takes the user from somewhere else than the session
UpsertForAnyUser(store, u, l, now) ==
  store \cup {[userId |-> v, lessonId |-> l, completedAt |-> now] :
                v \in {w \in Users : ~HasCompletion(store, w, l)}}

\* lessonCompletion.upsert({where: userId_lessonId, update: {}, create}):
\* an existing row is left as it is, a new row gets completedAt = now
UpsertCompletion(store, u, l, now) ==
  IF HasCompletion(store, u, l) THEN store
  ELSE store \cup {[userId |-> u, lessonId |-> l, completedAt |-> now]}

\* deleteMany whose where clause forgets the lessonId
DeleteCompletionsOfUser(store, u, l) == {c \in store : c.userId # u}

\* deleteMany whose where clause forgets the userId
DeleteCompletionsOfLesson(store, u, l) == {c \in store : c.lessonId # l}

\* lessonCompletion.deleteMany({where: {userId, lessonId}})
DeleteManyCompletions(store, u, l) ==
  {c \in store : ~(c.userId = u /\ c.lessonId = l)}

\* a plain create instead of the upsert: the unique index rejects a second row
CreateOnlyOk(store, u, l) == ~HasCompletion(store, u, l) /\ LessonExists(l)

\* the upsert succeeds unless it has to create a row for a missing lesson
\* (LessonCompletion_lessonId_fkey)
UpsertOk(store, u, l) == HasCompletion(store, u, l) \/ LessonExists(l)

\* lessonCompletion.findMany({where: {userId, lesson: {courseId}}}) on a store
CompletedIn(store, u, courseId) ==
  {c.lessonId : c \in {d \in store :
      /\ d.userId = u
      /\ LessonExists(d.lessonId)
      /\ LessonById(d.lessonId).courseId = courseId}}

\* courseRouter.getLessonCompletions for user u
GetLessonCompletions(u, courseId) == CompletedIn(completions, u, courseId)

NoCall == [op |-> "none", userId |-> NULL, lessonId |-> NULL, ok |-> TRUE,
           before |-> {}, statements |-> 0, dbDown |-> FALSE]

\* courseRouter.markLessonCompleted called by signed-in user u
MarkLessonCompleted(u, l) ==
  /\ completions' =
       IF UpsertOk(completions, u, l)
       THEN UpsertCompletion(completions, u, l, clock) ELSE completions
  /\ lastCall' = [op |-> "mark", userId |-> u, lessonId |-> l,
                  ok |-> UpsertOk(completions, u, l), before |-> completions,
                  statements |-> 1, dbDown |-> FALSE]

\* courseRouter.unmarkLessonCompleted called by signed-in user u
UnmarkLessonCompleted(u, l) ==
  /\ completions' = DeleteManyCompletions(completions, u, l)
  /\ lastCall' = [op |-> "unmark", userId |-> u, lessonId |-> l,
                  ok |-> TRUE, before |-> completions,
                  statements |-> 1, dbDown |-> FALSE]

\* a handler that sends its statement a second time when the first one failed,
\* and answers with the second result
CompletionCallRetried(op, u, l) ==
  /\ completions' =
       IF op = "unmark" THEN DeleteManyCompletions(completions, u, l)
       ELSE IF UpsertOk(completions, u, l)
         THEN UpsertCompletion(completions, u, l, clock)
       ELSE completions
  /\ lastCall' = [op |-> op, userId |-> u, lessonId |-> l,
                  ok |-> op = "unmark" \/ UpsertOk(completions, u, l),
                  before |-> completions, statements |-> 2, dbDown |-> TRUE]

\* markLessonCompleted / unmarkLessonCompleted (op) while the database cannot
\* be reached: the awaited upsert or deleteMany rejects, nothing catches it,
\* and the rejection is the answer
CompletionCallFails(op, u, l) ==
  /\ completions' = completions
  /\ lastCall' = [op |-> op, userId |-> u, lessonId |-> l, ok |-> FALSE,
                  before |-> completions, statements |-> 1, dbDown |-> TRUE]

\* time passes between two requests (completedAt DEFAULT CURRENT_TIMESTAMP)
Tick ==
  /\ clock < MaxClock
  /\ clock' = clock + 1

\* --------------------------------------------------------- courseRouter.bySlug
LessonPayload(l) == [id |-> l.id, status |-> l.status, order |-> l.order]

RECURSIVE ChapterPayloads(_)
\* include: {chapters: {include: {lessons: {orderBy: {order: "asc"}}}}}
ChapterPayloads(chs) ==
  IF chs = <<>> THEN {<<>>}
  ELSE {<<[id |-> Head(chs).id, slug |-> Head(chs).slug,
           order |-> Head(chs).order, lessons |-> ls]>> \o rest :
          ls \in OrderByAsc({LessonPayload(l) :
                  l \in {m \in lessons : m.chapterId = Head(chs).id}}),
          rest \in ChapterPayloads(Tail(chs))}

\* findUnique found no row: null
NoCourse == [id |-> NULL, audience |-> NULL, chapters |-> <<>>,
             lessons |-> <<>>]

\* the payloads findUnique may return for the course: chapters ordered by
\* order, each with all its lessons, and "lessons": every Lesson row whose
\* courseId is the course, whatever its chapterId
BySlug(slug) ==
  IF slug \notin courses THEN {NoCourse} ELSE
  {[id |-> slug, audience |-> courseAudience[slug], chapters |-> cp,
    lessons |-> ls] :
     cp \in UNION {ChapterPayloads(chs) :
              chs \in OrderByAsc({c \in chapters : c.courseId = slug})},
     ls \in OrderByAsc({LessonPayload(l) :
              l \in {m \in lessons : m.courseId = slug}})}


\* ------------------------------------------------- learner page: derived values
IsPublished(l) == l.status = "PUBLISHED"

RECURSIVE ChapterLessonsOrdered(_)
\* .flatMap(chapter => [...chapter.lessons].filter(PUBLISHED).sort(by order))
ChapterLessonsOrdered(chs) ==
  IF chs = <<>> THEN <<>>
  ELSE SortByOrder(Filter(Head(chs).lessons, IsPublished))
         \o ChapterLessonsOrdered(Tail(chs))

\* const lessons = useMemo(...): the resolved lesson sequence
ResolvedLessons(c) ==
  IF c.id = NULL THEN <<>>
  ELSE ChapterLessonsOrdered(SortByOrder(c.chapters))
         \o SortByOrder(Filter(c.lessons, IsPublished))

Ids(s) == {s[i].id : i \in 1..Len(s)}

FirstLessonIdOf(c) ==
  IF Len(ResolvedLessons(c)) > 0 THEN ResolvedLessons(c)[1].id ELSE NULL

firstLessonId == FirstLessonIdOf(course)
totalLessons == Len(ResolvedLessons(course))

isAuthed == session.user # NULL
isCustomer == session.creativeFunSubscription = TRUE
isFreeCourse == course.audience = "FREE"
IsFirstLesson(id) == firstLessonId # NULL /\ id = firstLessonId

\* Locked without the free preview of the first lesson
LockedNoPreview(id) == ~isAuthed \/ (~isFreeCourse /\ ~isCustomer)

\* Locked that asks for a subscription on FREE courses too
LockedIgnoringAudience(id) ==
  ~IsFirstLesson(id) /\ (~isAuthed \/ ~isCustomer)

\* Locked that only asks for a session
LockedAuthOnly(id) == ~IsFirstLesson(id) /\ ~isAuthed

\* const locked = !isFirstLesson && (!isAuthed || (!isFreeCourse && !isCustomer))
Locked(id) ==
  ~IsFirstLesson(id) /\ (~isAuthed \/ (~isFreeCourse /\ ~isCustomer))

\* LockReason that tests the subscription before the session
LockReasonSubscriptionFirst ==
  IF ~isFreeCourse /\ ~isCustomer THEN "subscription"
  ELSE IF ~isAuthed THEN "auth"
  ELSE NULL

\* const lockReason = !isAuthed ? 'auth' : ... ? 'subscription' : null
LockReason ==
  IF ~isAuthed THEN "auth"
  ELSE IF ~isFreeCourse /\ ~isCustomer THEN "subscription"
  ELSE NULL

\* the locked panel: needsAuth / needsSubscription
needsAuth == ~isAuthed
needsSubscription == isAuthed /\ ~isFreeCourse /\ ~isCustomer

\* heading of the locked panel
LockedPanelHeading ==
  IF needsAuth THEN "Sign In Required"
  ELSE "CreatiFun Subscription Required"

RECURSIVE SidebarChapterIds(_)
\* sidebar buttons of the chapters (chapters expanded): chapter.lessons
\* filtered by PUBLISHED, in payload order
SidebarChapterIds(chs) ==
  IF chs = <<>> THEN {}
  ELSE Ids(Filter(Head(chs).lessons, IsPublished))
         \cup SidebarChapterIds(Tail(chs))

\* sidebar buttons of the standalone section: course.lessons.map, unfiltered
SidebarStandaloneIds(c) == Ids(c.lessons)

SidebarIds(c) == SidebarChapterIds(c.chapters) \cup SidebarStandaloneIds(c)

NoOptimistic == [isNull |-> TRUE, ids |-> {}]
SomeOptimistic(S) == [isNull |-> FALSE, ids |-> S]

\* const optimisticIds = optimisticCompletedIds ?? completedLessonIds
OptimisticIdsOf(o, completed) == IF o.isNull THEN completed ELSE o.ids
optimisticIds == OptimisticIdsOf(optimisticCompletedIds, completedLessonIds)

\* Math.round(n / d) for n >= 0, d > 0: halves round up
RoundDiv(n, d) == (2 * n + d) \div (2 * d)

\* const completedCount = optimisticIds.length
completedCount == Cardinality(optimisticIds)

\* const progressPercent =
\*   totalLessons > 0 ? Math.round((completedCount / totalLessons) * 100) : 0
progressPercent ==
  IF totalLessons > 0 THEN RoundDiv(100 * completedCount, totalLessons) ELSE 0

\* const active = lessons.find(l => l.id === activeId) || null
ActiveOf(c, a) == IF a \in Ids(ResolvedLessons(c)) THEN a ELSE NULL
active == ActiveOf(course, activeId)

\* the lesson whose article is rendered: the locked panel replaces it
displayed == IF course.id # NULL /\ lockedAttempt = NULL THEN active ELSE NULL

\* ------------------------------------------------------ learner page: effects
\* a find that keeps the last lesson not completed instead of the first
LastIncomplete(ls, completed) ==
  IF \E i \in 1..Len(ls) : ls[i].id \notin completed
  THEN ls[CHOOSE i \in 1..Len(ls) :
            /\ ls[i].id \notin completed
            /\ \A j \in (i + 1)..Len(ls) : ls[j].id \in completed].id
  ELSE NULL

\* const firstIncomplete = lessons.find(l => !completedLessonIds.includes(l.id))
FirstIncomplete(ls, completed) ==
  LET NotCompleted(l) == l.id \notin completed
  IN  FindId(ls, NotCompleted)

\* the auto-select effect: the activeId it leaves
AutoSelect(c, urlL, urlC, completed, optIds, a) ==
  LET ls == ResolvedLessons(c)
      hasTarget == urlC # NULL /\ c.id # NULL
                     /\ \E i \in 1..Len(c.chapters) : c.chapters[i].slug = urlC
      target == c.chapters[CHOOSE i \in 1..Len(c.chapters) :
                   /\ c.chapters[i].slug = urlC
                   /\ \A j \in 1..(i - 1) : c.chapters[j].slug # urlC]
      NotOptimistic(l) == l.id \notin optIds
  IN  IF Len(ls) = 0 THEN NULL
      \* Priority 1: the lesson named in the URL
      ELSE IF urlL # NULL /\ urlL \in Ids(ls) THEN urlL
      \* Priority 2: the chapter named in the URL
      ELSE IF hasTarget /\ Len(target.lessons) > 0
        THEN IF a = NULL \/ a \notin Ids(target.lessons)
             THEN IF FindId(target.lessons, NotOptimistic) # NULL
                  THEN FindId(target.lessons, NotOptimistic)
                  ELSE target.lessons[1].id
             ELSE a
      \* Priority 3: first incomplete lesson, else the first lesson
      ELSE IF a = NULL \/ a \notin Ids(ls)
        THEN IF FirstIncomplete(ls, completed) # NULL
             THEN FirstIncomplete(ls, completed)
             ELSE ls[1].id
        ELSE a

\* the effect that clears optimisticCompletedIds once the query data has them
ClearOptimistic(o, completed) ==
  IF ~o.isNull /\ o.ids \subseteq completed THEN NoOptimistic ELSE o

RECURSIVE RunEffects(_, _, _, _, _, _, _)
\* effects run after each render until no state changes: <<activeId, optimistic>>
RunEffects(c, urlL, urlC, completed, a, o, fuel) ==
  LET a2 == AutoSelect(c, urlL, urlC, completed,
                       OptimisticIdsOf(o, completed), a)
      o2 == ClearOptimistic(o, completed)
  IN  IF (a2 = a /\ o2 = o) \/ fuel = 0 THEN <<a, o>>
      ELSE RunEffects(c, urlL, urlC, completed, a2, o2, fuel - 1)

\* commit a handler's state updates and run the effects
Render(c, urlL, completed, a, o) ==
  LET r == RunEffects(c, urlL, urlChapter, completed, a, o, 4)
  IN  /\ course' = c
      /\ urlLesson' = urlL
      /\ completedLessonIds' = completed
      /\ activeId' = r[1]
      /\ optimisticCompletedIds' = r[2]
      /\ UNCHANGED <<session, urlChapter>>

\* ------------------------------------------------------ learner page: actions
pageOpen == course.id # NULL

\* /learn?course=c1[&lesson=..][&chapter=..] is opened and bySlug answers
OpenPage(urlL, urlC) ==
  /\ ~pageOpen
  /\ \E c \in BySlug(LearnCourse) :
       LET r == RunEffects(c, urlL, urlC, {}, NULL, NoOptimistic, 4)
       IN  /\ course' = c
           /\ activeId' = r[1]
           /\ optimisticCompletedIds' = r[2]
  /\ urlLesson' = urlL
  /\ urlChapter' = urlC
  /\ completedLessonIds' = {}
  /\ refetchPending' = isAuthed
  /\ lockedAttempt' = NULL
  /\ UNCHANGED <<session, dbVars, storeVars, requestVars>>

\* the getLessonCompletions query (first fetch or refetch) answers
CompletionsLoaded ==
  /\ pageOpen /\ refetchPending
  /\ refetchPending' = FALSE
  /\ Render(course, urlLesson, GetLessonCompletions(session.user, course.id),
            activeId, optimisticCompletedIds)
  /\ UNCHANGED <<lockedAttempt, dbVars, storeVars, requestVars>>

\* onClick of a sidebar lesson button
ClickLesson(id) ==
  /\ pageOpen /\ id \in SidebarIds(course)
  /\ IF Locked(id)
     THEN /\ lockedAttempt' = id
          /\ Render(course, urlLesson, completedLessonIds, firstLessonId,
                    optimisticCompletedIds)
     ELSE /\ lockedAttempt' = NULL
          /\ Render(course, id, completedLessonIds, id,
                    optimisticCompletedIds)
  /\ UNCHANGED <<refetchPending, dbVars, storeVars, requestVars>>

\* the mutation a signed-in viewer's page sends reaches its handler, and
\* onSuccess asks for a refetch; without a session the procedure rejects it
MutateMark(id) ==
  IF isAuthed
  THEN /\ completions' = UpsertCompletion(completions, session.user, id, clock)
       /\ refetchPending' = TRUE
  ELSE UNCHANGED <<completions, refetchPending>>

MutateUnmark(id) ==
  IF isAuthed
  THEN /\ completions' = DeleteManyCompletions(completions, session.user, id)
       /\ refetchPending' = TRUE
  ELSE UNCHANGED <<completions, refetchPending>>

\* onClick of a sidebar lesson's completion toggle
ToggleCompletion(id) ==
  /\ pageOpen /\ id \in SidebarIds(course)
  /\ IF id \in optimisticIds THEN MutateUnmark(id) ELSE MutateMark(id)
  /\ UNCHANGED <<clock, lastCall, dbVars, session, course, completedLessonIds,
                 activeId, lockedAttempt, optimisticCompletedIds, urlLesson,
                 urlChapter, requestVars>>

\* onClick of "Back to first lesson" in the locked panel
BackToFirst ==
  /\ pageOpen /\ lockedAttempt # NULL
  /\ lockedAttempt' = NULL
  /\ Render(course, urlLesson, completedLessonIds, firstLessonId,
            optimisticCompletedIds)
  /\ UNCHANGED <<refetchPending, dbVars, storeVars, requestVars>>

\* lessons[currentIdx - 1] / lessons[currentIdx + 1] of the bottom navigation
PrevLessonId ==
  LET ls == ResolvedLessons(course)
      IsActive(l) == l.id = active
      currentIdx == FindIndex(ls, IsActive)
  IN  IF currentIdx > 1 THEN ls[currentIdx - 1].id ELSE NULL

NextLessonId ==
  LET ls == ResolvedLessons(course)
      IsActive(l) == l.id = active
      currentIdx == FindIndex(ls, IsActive)
  IN  IF currentIdx >= 1 /\ currentIdx < Len(ls) THEN ls[currentIdx + 1].id
      ELSE NULL

\* onClick of "Previous Lesson" (disabled without a previous lesson)
PrevClick ==
  /\ displayed # NULL /\ PrevLessonId # NULL
  /\ Render(course, PrevLessonId, completedLessonIds, PrevLessonId,
            optimisticCompletedIds)
  /\ UNCHANGED <<lockedAttempt, refetchPending, dbVars, storeVars, requestVars>>

\* onClick of "Next": marks the active lesson completed if needed, then moves on
NextClick ==
  /\ displayed # NULL
  /\ LET isCompleted == active \in optimisticIds
         o == IF isCompleted THEN optimisticCompletedIds
              ELSE SomeOptimistic(optimisticIds \cup {active})
         a == IF NextLessonId # NULL THEN NextLessonId ELSE activeId
         u == IF NextLessonId # NULL THEN NextLessonId ELSE urlLesson
     IN  /\ IF isCompleted THEN UNCHANGED <<completions, refetchPending>>
            ELSE MutateMark(active)
         /\ Render(course, u, completedLessonIds, a, o)
  /\ UNCHANGED <<lockedAttempt, clock, lastCall, dbVars, requestVars>>

\* --------------------------------------------------------------- authoring
\* handleCreateLesson's order: the number of lessons the parent already lists
NextOrder(courseId, chapterId) ==
  IF chapterId # NULL
  THEN Cardinality({l \in lessons : l.chapterId = chapterId})
  ELSE Cardinality({l \in lessons : l.courseId = courseId})

\* an administrator adds a lesson to the learner page's course
AuthorLesson ==
  /\ ~pageOpen
  /\ \E courseId \in {NULL, LearnCourse},
        chapterId \in {NULL} \cup {c.id : c \in chapters},
        status \in AuthoredStatuses :
       AddLesson(courseId, chapterId, status, NextOrder(courseId, chapterId))
  /\ UNCHANGED <<storeVars, pageVars, requestVars>>

\* handleChapterFormSubmit: a new chapter goes to the end (order = count)
AuthorChapter ==
  /\ ~pageOpen
  /\ CreateChapter(LearnCourse, Cardinality(chapters))
  /\ UNCHANGED <<storeVars, pageVars, requestVars>>

\* the learner completed a lesson on an earlier visit
EarlierCompletion ==
  /\ ~pageOpen /\ isAuthed
  /\ \E l \in lessons :
       /\ ~HasCompletion(completions, session.user, l.id)
       /\ completions' = UpsertCompletion(completions, session.user, l.id, clock)
  /\ UNCHANGED <<clock, lastCall, dbVars, pageVars, requestVars>>

\* ------------------------------------------------------------ specification
Anonymous == [user |-> NULL, creativeFunSubscription |-> FALSE]
SignedIn(sub) == [user |-> Learner, creativeFunSubscription |-> sub]

NoHome == [rendered |-> FALSE]
NoVerification == [done |-> FALSE]
NoRouterCall == [op |-> "none"]
NoAdminCheck == [done |-> FALSE]
NoGateCall == [done |-> FALSE]

\* the browser tabs a user has open on the learner page
Tabs == {"t1", "t2"}
IdleTab == [pc |-> "idle"]

InitTabs ==
  /\ tabs = [t \in Tabs |-> IdleTab]
  /\ lastWrite = [pr \in Users \X {LessonIdOf(n) : n \in 1..MaxLessons} |-> "none"]

InitRequests ==
  /\ home = NoHome
  /\ verification = NoVerification
  /\ routerCall = NoRouterCall
  /\ adminCheck = NoAdminCheck
  /\ gateCall = NoGateCall
  /\ InitTabs

InitDb ==
  /\ courses = CourseIds
  /\ chapters = {}
  /\ lessons = {}
  /\ completions = {}
  /\ clock = 0
  /\ lastCall = NoCall

InitPage ==
  /\ course = NoCourse
  /\ completedLessonIds = {}
  /\ refetchPending = FALSE
  /\ activeId = NULL
  /\ lockedAttempt = NULL
  /\ optimisticCompletedIds = NoOptimistic
  /\ urlLesson = NULL
  /\ urlChapter = NULL

Init ==
  /\ InitDb
  /\ InitPage
  /\ InitRequests
  /\ courseAudience \in {[c \in CourseIds |-> IF c = LearnCourse THEN a ELSE NULL] :
                           a \in {"FREE", NULL}}
  /\ session \in {Anonymous, SignedIn(FALSE), SignedIn(TRUE)}

\* the learner follows a link to the course, with or without a lesson or a
\* chapter in it
OpenLearnPage ==
  \E urlL \in {NULL} \cup {l.id : l \in lessons},
     urlC \in {NULL} \cup {c.slug : c \in chapters} : OpenPage(urlL, urlC)

ClickSidebarLesson == \E id \in {l.id : l \in lessons} : ClickLesson(id)

ClickCompletionToggle ==
  \E id \in {l.id : l \in lessons} : ToggleCompletion(id)

Next ==
  \/ AuthorLesson
  \/ AuthorChapter
  \/ EarlierCompletion
  \/ OpenLearnPage
  \/ CompletionsLoaded
  \/ ClickSidebarLesson
  \/ ClickCompletionToggle
  \/ BackToFirst
  \/ PrevClick
  \/ NextClick

Spec == Init /\ [][Next]_vars

\* --------------------------------------- specification of the completion store
LessonUniverse == {LessonIdOf(n) : n \in 1..MaxLessons}

\* an administrator adds a lesson to some course
StoreAddLesson ==
  /\ \E courseId \in CourseIds : AddLesson(courseId, NULL, "PUBLISHED", 0)
  /\ UNCHANGED <<storeVars, pageVars, requestVars>>

\* a signed-in user's markLessonCompleted request
CallMark ==
  /\ \E u \in Users, l \in LessonUniverse : MarkLessonCompleted(u, l)
  /\ Tick
  /\ UNCHANGED <<dbVars, pageVars, requestVars>>

\* a signed-in user's unmarkLessonCompleted request
CallUnmark ==
  /\ \E u \in Users, l \in LessonUniverse : UnmarkLessonCompleted(u, l)
  /\ Tick
  /\ UNCHANGED <<dbVars, pageVars, requestVars>>

InitStore ==
  /\ InitDb
  /\ InitPage
  /\ InitRequests
  /\ courseAudience = [c \in CourseIds |-> NULL]
  /\ session = Anonymous

NextStore == StoreAddLesson \/ CallMark \/ CallUnmark

SpecStore == InitStore /\ [][NextStore]_vars

\* ------------------------- specification of the store with an unreliable database
\* a request arrives while the database cannot be reached
CallFails ==
  /\ \E op \in {"mark", "unmark"}, u \in Users, l \in LessonUniverse :
       CompletionCallFails(op, u, l)
  /\ Tick
  /\ UNCHANGED <<dbVars, pageVars, requestVars>>

NextFailure == StoreAddLesson \/ CallMark \/ CallUnmark \/ CallFails

SpecFailure == InitStore /\ [][NextFailure]_vars

\* ------------------------------------------- concurrent completion requests
\* The tabs are the learner's.  Each tab sends one request at a time.
\* deleteMany is one statement.  The
\* upsert has an empty update: depending on the Prisma engine it is sent as one
\* INSERT .. ON CONFLICT statement, or as a lookup followed by a create (or by
\* nothing when the lookup found the row); the unique index
\* LessonCompletion_userId_lessonId_key rejects a create that meets a row.
\* The one-statement upsert is the run in which no other statement comes
\* between the lookup and the write.
StartedCall(op, u, l, found) ==
  [pc |-> "looked", op |-> op, userId |-> u, lessonId |-> l, found |-> found,
   ok |-> TRUE]

FinishedCall(op, u, l, ok) ==
  [pc |-> "done", op |-> op, userId |-> u, lessonId |-> l, found |-> FALSE,
   ok |-> ok]

\* the upsert of markLessonCompleted, first half: the lookup by userId_lessonId
TabMarkLookup(t) ==
  /\ tabs[t].pc # "looked"
  /\ \E u \in {Learner}, l \in {x.id : x \in lessons} :
       tabs' = [tabs EXCEPT
                  ![t] = StartedCall("mark", u, l, HasCompletion(completions, u, l))]
  /\ UNCHANGED <<dbVars, storeVars, pageVars, home, verification, routerCall,
                 accessVars, lastWrite>>

\* second half: update: {} writes nothing to a row that was found, create
\* inserts the row, and a row inserted meanwhile makes the create fail
TabMarkWrite(t) ==
  /\ tabs[t].pc = "looked"
  /\ LET u == tabs[t].userId
         l == tabs[t].lessonId
         conflict == ~tabs[t].found /\ HasCompletion(completions, u, l)
         inserts == ~tabs[t].found /\ ~conflict
     IN  /\ completions' =
              IF inserts THEN UpsertCompletion(completions, u, l, clock)
              ELSE completions
         /\ tabs' = [tabs EXCEPT ![t] = FinishedCall("mark", u, l, ~conflict)]
         /\ lastWrite' = IF inserts THEN [lastWrite EXCEPT ![<<u, l>>] = "mark"]
                         ELSE lastWrite
  /\ UNCHANGED <<dbVars, clock, lastCall, pageVars, home, verification,
                 routerCall, accessVars>>

\* unmarkLessonCompleted: the deleteMany statement
TabUnmark(t) ==
  /\ tabs[t].pc # "looked"
  /\ \E u \in {Learner}, l \in {x.id : x \in lessons} :
       /\ completions' = DeleteManyCompletions(completions, u, l)
       /\ tabs' = [tabs EXCEPT ![t] = FinishedCall("unmark", u, l, TRUE)]
       /\ lastWrite' = [lastWrite EXCEPT ![<<u, l>>] = "unmark"]
  /\ UNCHANGED <<dbVars, clock, lastCall, pageVars, home, verification,
                 routerCall, accessVars>>

TabsMarkLookup == \E t \in Tabs : TabMarkLookup(t)
TabsMarkWrite == \E t \in Tabs : TabMarkWrite(t)
TabsUnmark == \E t \in Tabs : TabUnmark(t)

NextRace ==
  \/ StoreAddLesson
  \/ TabsMarkLookup
  \/ TabsMarkWrite
  \/ TabsUnmark

SpecRace == InitStore /\ [][NextRace]_vars

\* ------------------------------------------ specification of the lesson locks
\* the learner page as far as the locks go: the course is authored, the page
\* is opened, sidebar lessons are clicked
NextGate ==
  \/ AuthorLesson
  \/ AuthorChapter
  \/ OpenLearnPage
  \/ CompletionsLoaded
  \/ ClickSidebarLesson
  \/ BackToFirst

SpecGate == Init /\ [][NextGate]_vars

\* ------------------------------- specification of a visit that resumes a course
\* lessons are authored and completed on earlier visits, then the page is
\* opened and its completions load
NextResume ==
  \/ AuthorLesson
  \/ AuthorChapter
  \/ EarlierCompletion
  \/ OpenLearnPage
  \/ CompletionsLoaded

SpecResume == Init /\ [][NextResume]_vars

\* ------------------------------------------------- home page: continue learning
\* cuids sort by creation: the place of an id among the ids of its table
CourseRank(c) == CHOOSE n \in 1..Cardinality(CourseIds) : c = "c" \o ToString(n)
ChapterRank(k) == CHOOSE n \in 1..MaxChapters : k = ChapterIdOf(n)

\* ORDER BY ... ASC of Postgres: NULL comes last
CourseIdLess(a, b) == a # NULL /\ (b = NULL \/ CourseRank(a) < CourseRank(b))
ChapterIdLess(a, b) == a # NULL /\ (b = NULL \/ ChapterRank(a) < ChapterRank(b))

\* orderBy: [{courseId: "asc"}, {chapterId: "asc"}, {order: "asc"}]
RowLeq(a, b) ==
  \/ CourseIdLess(a.courseId, b.courseId)
  \/ /\ a.courseId = b.courseId
     /\ \/ ChapterIdLess(a.chapterId, b.chapterId)
        \/ a.chapterId = b.chapterId /\ a.order <= b.order

\* lessonCompletions: {where: {userId}, select: {id: true}}: completedAt is
\* not selected
CompletionsSelect(l, u) ==
  IF HasCompletion(completions, u, l.id)
  THEN <<[id |-> <<u, l.id>>]>> ELSE <<>>

\* one row of lessonsWithCompletion
HomeRow(l, u) ==
  [id |-> l.id, order |-> l.order, courseId |-> l.courseId,
   chapterId |-> l.chapterId,
   chapterCourseId |->
     IF l.chapterId # NULL /\ ChapterExists(l.chapterId)
     THEN (CHOOSE c \in chapters : c.id = l.chapterId).courseId ELSE NULL,
   lessonCompletions |-> CompletionsSelect(l, u)]

\* the where clause that forgets status: "PUBLISHED"
LessonsOfAnyStatus(u) == {HomeRow(l, u) : l \in lessons}

\* db.lesson.findMany({where: {status: "PUBLISHED", OR: [...]}}) as a set
PublishedLessonRows(u) ==
  {HomeRow(l, u) : l \in {m \in lessons :
     m.status = "PUBLISHED" /\ (m.courseId # NULL \/ m.chapterId # NULL)}}

\* the row orders the query may return
LessonsWithCompletion(u) ==
  {s \in SeqsOf(PublishedLessonRows(u)) :
     \A i \in 1..(Len(s) - 1) : RowLeq(s[i], s[i + 1])}

\* const courseId = lesson.courseId || lesson.chapter?.courseId
OwnerOf(row) ==
  IF row.courseId # NULL THEN row.courseId ELSE row.chapterCourseId

RECURSIVE MapKeys(_)
\* the keys of courseLessons, in insertion order
MapKeys(rows) ==
  IF rows = <<>> THEN <<>>
  ELSE LET rest == MapKeys(SubSeq(rows, 1, Len(rows) - 1))
           k == OwnerOf(rows[Len(rows)])
       IN  IF k = NULL \/ \E i \in 1..Len(rest) : rest[i] = k THEN rest
           ELSE Append(rest, k)

\* courseLessons.get(courseId)
GroupOf(rows, k) ==
  LET Owned(r) == OwnerOf(r) = k
  IN  SelectSeq(rows, Owned)

\* new Date(completion.completedAt || 0).getTime()
CompletedAtOf(c) == IF "completedAt" \in DOMAIN c THEN c.completedAt ELSE 0

RECURSIVE InsertRecent(_, _)
InsertRecent(x, s) ==
  IF s = <<>> THEN <<x>>
  ELSE IF CompletedAtOf(s[Len(s)].lessonCompletions[1])
            >= CompletedAtOf(x.lessonCompletions[1])
       THEN Append(s, x)
       ELSE Append(InsertRecent(x, SubSeq(s, 1, Len(s) - 1)), s[Len(s)])

RECURSIVE SortMostRecentFirst(_)
\* .sort((a, b) => time(b.lessonCompletions[0]) - time(a.lessonCompletions[0]))
SortMostRecentFirst(s) ==
  IF s = <<>> THEN <<>>
  ELSE InsertRecent(s[Len(s)], SortMostRecentFirst(SubSeq(s, 1, Len(s) - 1)))

NoTarget == [slug |-> NULL, lessonId |-> NULL]

RECURSIVE FirstIncompleteOfCourses(_, _)
\* for (const [courseId, lessons] of courseLessons): the first lesson without
\* completion of the first course that has one, lessons sorted by order
FirstIncompleteOfCourses(rows, keys) ==
  IF keys = <<>> THEN NoTarget
  ELSE LET sortedLessons == SortByOrder(GroupOf(rows, Head(keys)))
           NotDone(r) == Len(r.lessonCompletions) = 0
           open == SelectSeq(sortedLessons, NotDone)
       IN  IF open # <<>> THEN [slug |-> Head(keys), lessonId |-> open[1].id]
           ELSE FirstIncompleteOfCourses(rows, Tail(keys))

\* the fallback: the course of the most recent completion
MostRecentCompletion(rows) ==
  LET Done(r) == Len(r.lessonCompletions) > 0
      sorted == SortMostRecentFirst(SelectSeq(rows, Done))
  IN  IF sorted # <<>> THEN [slug |-> OwnerOf(sorted[1]), lessonId |-> NULL]
      ELSE NoTarget

\* continueCourseSlug of HomePage for viewer u (NULL: no session), the lesson
\* query having returned rows
ContinueCourseSlug(u, rows) ==
  IF u = NULL THEN NoTarget
  ELSE IF FirstIncompleteOfCourses(rows, MapKeys(rows)) # NoTarget
       THEN FirstIncompleteOfCourses(rows, MapKeys(rows))
  ELSE IF Len(rows) > 0 THEN MostRecentCompletion(rows)
  ELSE NoTarget

\* a request for / is rendered for viewer u
RenderHome ==
  /\ ~home.rendered
  /\ \E u \in Users \cup {NULL} :
       \E rows \in (IF u = NULL THEN {<<>>} ELSE LessonsWithCompletion(u)) :
         home' = [rendered |-> TRUE, viewer |-> u, rows |-> rows,
                  target |-> ContinueCourseSlug(u, rows)]
  /\ UNCHANGED <<dbVars, storeVars, pageVars, verification, routerCall, accessVars, raceVars>>

\* the response is done with; the catalogue may change before the next request
LeaveHome ==
  /\ home.rendered
  /\ home' = NoHome
  /\ UNCHANGED <<dbVars, storeVars, pageVars, verification, routerCall, accessVars, raceVars>>

\* an administrator adds a lesson to a course, a chapter, or a chapter of the
\* course
HomeAuthorLesson ==
  /\ ~home.rendered
  /\ \E courseId \in {NULL} \cup CourseIds,
        chapterId \in {NULL} \cup {c.id : c \in chapters},
        status \in AuthoredStatuses :
       /\ (courseId # NULL /\ chapterId # NULL) =>
            \E c \in chapters : c.id = chapterId /\ c.courseId = courseId
       /\ AddLesson(courseId, chapterId, status, NextOrder(courseId, chapterId))
  /\ UNCHANGED <<storeVars, pageVars, requestVars>>

HomeAuthorChapter ==
  /\ ~home.rendered
  /\ CreateChapter(LearnCourse, Cardinality(chapters))
  /\ UNCHANGED <<storeVars, pageVars, requestVars>>

\* the learner completes a lesson (markLessonCompleted)
HomeComplete ==
  /\ ~home.rendered
  /\ \E l \in lessons :
       /\ ~HasCompletion(completions, Learner, l.id)
       /\ completions' = UpsertCompletion(completions, Learner, l.id, clock)
  /\ Tick
  /\ UNCHANGED <<lastCall, dbVars, pageVars, requestVars>>

NextHome ==
  \/ HomeAuthorLesson
  \/ HomeAuthorChapter
  \/ HomeComplete
  \/ RenderHome
  \/ LeaveHome

SpecHome == InitStore /\ [][NextHome]_vars

\* --------------------------------------------------- subscription verification
Emails == {"ann@x", "bob@x"}

\* what the request to the verification API comes to
ApiOutcomes == {"timeout", "throws", "http_error", "customer", "not_customer"}

\* what reading CREATIVE_FUN_SUBSCRIBED_EMAILS comes to: it throws, or the list
EnvOutcomes == [throws : BOOLEAN, subscribedEmails : SUBSET Emails]

\* a check whose catch block and error branch let the viewer through
CheckCustomerFailOpen(email, outcome) ==
  email # NULL /\ outcome # "not_customer"

\* checkCreativeFunCustomer: false without email, on timeout or exception
\* (catch), on a response that is not ok; else data.isCustomer === true
CheckCreativeFunCustomer(email, outcome) ==
  IF email = NULL THEN FALSE
  ELSE IF outcome \in {"timeout", "throws"} THEN FALSE
  ELSE IF outcome = "http_error" THEN FALSE
  ELSE outcome = "customer"

\* checkCreativeFunSubscription: email && subscribedEmails.includes(email),
\* false on exception (catch)
CheckCreativeFunSubscription(email, outcome) ==
  IF outcome.throws THEN FALSE
  ELSE email # NULL /\ email \in outcome.subscribedEmails

\* the creativeFunSubscription flag the session callback sets: the check's
\* result for a user with email, false without email or when the callback's
\* own try block throws
SessionFlag(email, checked, callbackThrows) ==
  IF callbackThrows THEN FALSE
  ELSE IF email # NULL THEN checked
  ELSE FALSE

\* a user signs in and the session callback verifies the subscription
EstablishSession ==
  /\ ~verification.done /\ session = Anonymous /\ ~pageOpen
  /\ \E email \in Emails \cup {NULL}, callbackThrows \in BOOLEAN :
       \/ \E outcome \in ApiOutcomes :
            /\ verification' =
                 [done |-> TRUE, email |-> email, verifier |-> "api",
                  failed |-> outcome \in {"timeout", "throws", "http_error"},
                  result |-> CheckCreativeFunCustomer(email, outcome)]
            /\ session' = [user |-> Learner, creativeFunSubscription |->
                  SessionFlag(email, CheckCreativeFunCustomer(email, outcome),
                              callbackThrows)]
       \/ \E outcome \in EnvOutcomes :
            /\ verification' =
                 [done |-> TRUE, email |-> email, verifier |-> "env",
                  failed |-> outcome.throws,
                  result |-> CheckCreativeFunSubscription(email, outcome)]
            /\ session' = [user |-> Learner, creativeFunSubscription |->
                  SessionFlag(email, CheckCreativeFunSubscription(email, outcome),
                              callbackThrows)]
  /\ UNCHANGED <<dbVars, storeVars, course, completedLessonIds, refetchPending,
                 activeId, lockedAttempt, optimisticCompletedIds, urlLesson,
                 urlChapter, home, routerCall, accessVars, raceVars>>

InitSession ==
  /\ InitDb
  /\ InitPage
  /\ InitRequests
  /\ courseAudience \in {[c \in CourseIds |-> IF c = LearnCourse THEN a ELSE NULL] :
                           a \in {"FREE", NULL}}
  /\ session = Anonymous

NextSession ==
  \/ AuthorLesson
  \/ EstablishSession
  \/ OpenLearnPage
  \/ CompletionsLoaded
  \/ ClickSidebarLesson
  \/ BackToFirst

SpecSession == InitSession /\ [][NextSession]_vars

\* ------------------------------------------------------ the admin allow-list
\* text is a sequence of characters; an optional text (string | null |
\* undefined) is a record that says whether it is present
Chars == {"a", "A", "b", " ", ","}
Absent == [present |-> FALSE, text |-> <<>>]
Present(t) == [present |-> TRUE, text |-> t]

TextsUpTo(n) == UNION {[1..k -> Chars] : k \in 0..n}

\* String.prototype.toLowerCase
LowerChar(ch) == IF ch = "A" THEN "a" ELSE ch
ToLowerCase(t) == [i \in 1..Len(t) |-> LowerChar(t[i])]

\* String.prototype.trim
RECURSIVE TrimStart(_)
TrimStart(t) == IF t # <<>> /\ Head(t) = " " THEN TrimStart(Tail(t)) ELSE t

RECURSIVE TrimEnd(_)
TrimEnd(t) ==
  IF t # <<>> /\ t[Len(t)] = " " THEN TrimEnd(SubSeq(t, 1, Len(t) - 1)) ELSE t

Trim(t) == TrimEnd(TrimStart(t))

\* String.prototype.split(","): the pieces between the commas, empty ones kept
RECURSIVE SplitFrom(_, _)
SplitFrom(t, piece) ==
  IF t = <<>> THEN <<piece>>
  ELSE IF Head(t) = "," THEN <<piece>> \o SplitFrom(Tail(t), <<>>)
  ELSE SplitFrom(Tail(t), Append(piece, Head(t)))

Split(t) == SplitFrom(t, <<>>)

\* adminEmailSet for a value of env.ADMIN_EMAILS
AdminEmailSetOf(raw) ==
  LET r == IF raw.present THEN raw.text ELSE <<>>
      pieces == Split(r)
      mapped == [i \in 1..Len(pieces) |-> ToLowerCase(Trim(pieces[i]))]
  IN  IF Trim(r) = <<>> THEN {}
      ELSE {mapped[i] : i \in 1..Len(mapped)} \ {<<>>}

\* a membership test that compares the email as it was typed
IsAdminEmailAsTyped(raw, email) ==
  IF ~email.present \/ email.text = <<>> THEN FALSE
  ELSE email.text \in AdminEmailSetOf(raw)

\* isAdminEmail for a value of env.ADMIN_EMAILS
IsAdminEmailOf(raw, email) ==
  IF ~email.present \/ email.text = <<>> THEN FALSE
  ELSE ToLowerCase(email.text) \in AdminEmailSetOf(raw)

\* the values of ADMIN_EMAILS and of the email tried
AdminEmailsValues == {Absent} \cup {Present(t) : t \in TextsUpTo(MaxListLen)}
EmailValues == {Absent} \cup {Present(t) : t \in TextsUpTo(MaxEmailLen)}

\* isAdminEmail is called with the email, in a process started with the list
CheckAdminEmail ==
  /\ ~adminCheck.done
  /\ adminCheck' = [adminCheck EXCEPT
                      !.done = TRUE,
                      !.result = IsAdminEmailOf(adminCheck.raw, adminCheck.email)]
  /\ UNCHANGED <<dbVars, storeVars, pageVars, home, verification, routerCall,
                 gateCall, raceVars>>

\* a process is started with some ADMIN_EMAILS and is about to test some email
InitAllowList ==
  /\ InitDb
  /\ InitPage
  /\ home = NoHome
  /\ verification = NoVerification
  /\ routerCall = NoRouterCall
  /\ gateCall = NoGateCall
  /\ InitTabs
  /\ courseAudience = [c \in CourseIds |-> NULL]
  /\ session = Anonymous
  /\ \E raw \in AdminEmailsValues, email \in EmailValues :
       adminCheck = [done |-> FALSE, raw |-> raw, email |-> email,
                     result |-> FALSE]

NextAllowList == CheckAdminEmail

SpecAllowList == InitAllowList /\ [][NextAllowList]_vars

\* ------------------------------------------------ courseRouter: admin mutations
\* every request is served at a later time of the database clock
\* the users' emails as text, and ADMIN_EMAILS of the deployment
EmailText(email) == IF email = "ann@x" THEN <<"a">> ELSE <<"b">>
DeployedAdminEmails == Present(<<" ", "A", ",">>)
AdminEmails ==
  {e \in Emails : IsAdminEmailOf(DeployedAdminEmails, Present(EmailText(e)))}

\* the email of the session user who calls: on the list, not on it, or none
Callers == Emails \cup {NULL}

ChapterUniverse == {ChapterIdOf(n) : n \in 1..MaxChapters}

\* an allow-list test that lets every user with an email through
IsSignedInEmail(email) == email # NULL

\* isAdminEmail: false without email, else membership in the allow-list
IsAdminEmail(email) == email # NULL /\ email \in AdminEmails

\* ensureAdmin passes (it throws FORBIDDEN otherwise)
EnsureAdmin(email) == IsAdminEmail(email)

\* the procedure threw: the error reaches the caller, no statement was run
Rejected(op, caller, found, error) ==
  /\ routerCall' = [op |-> op, caller |-> caller, found |-> found,
                    error |-> error]
  /\ UNCHANGED <<dbVars, completions>>

\* the procedure returned
Answered(op, caller) ==
  routerCall' = [op |-> op, caller |-> caller, found |-> TRUE, error |-> NULL]

\* completions that outlive their lessons
CompletionsKept(ls) == completions

\* LessonCompletion_lessonId_fkey ON DELETE CASCADE
CompletionsOfLessons(ls) ==
  {c \in completions : \E l \in ls : l.id = c.lessonId}

\* the lessons a deleted course takes with it through Lesson.courseId
CourseLessonsOnDelete(id) == {l \in lessons : l.courseId = id}

\* course.delete of an existing course: Chapter_courseId_fkey and
\* Lesson_chapterId_fkey ON DELETE CASCADE take its chapters and their lessons
CourseDelete(id) ==
  LET keptChapters == {c \in chapters : c.courseId # id}
      keptLessons ==
        {l \in lessons \ CourseLessonsOnDelete(id) :
           l.chapterId = NULL \/ \E c \in keptChapters : c.id = l.chapterId}
  IN  /\ courses' = courses \ {id}
      /\ chapters' = keptChapters
      /\ lessons' = keptLessons
      /\ completions' = CompletionsOfLessons(keptLessons)
      /\ UNCHANGED courseAudience

\* chapter.delete of an existing chapter: Lesson_chapterId_fkey ON DELETE
\* CASCADE takes the chapter's lessons
ChapterDelete(id) ==
  LET keptLessons == {l \in lessons : l.chapterId # id}
  IN  /\ chapters' = {c \in chapters : c.id # id}
      /\ lessons' = keptLessons
      /\ completions' = CompletionsOfLessons(keptLessons)
      /\ UNCHANGED <<courses, courseAudience>>

\* lesson.delete of an existing lesson
LessonDelete(id) ==
  LET keptLessons == {l \in lessons : l.id # id}
  IN  /\ lessons' = keptLessons
      /\ completions' = CompletionsOfLessons(keptLessons)
      /\ UNCHANGED <<courses, courseAudience, chapters>>

\* the chapter.update calls of reorderChapters: order = index, for the ids
\* that have a row
ChaptersReorder(chapterIds) ==
  /\ chapters' =
       {IF \E i \in 1..Len(chapterIds) : chapterIds[i] = c.id
        THEN [c EXCEPT !.order =
                (CHOOSE i \in 1..Len(chapterIds) : chapterIds[i] = c.id) - 1]
        ELSE c : c \in chapters}
  /\ UNCHANGED <<courses, courseAudience, lessons, completions>>

\* course.create: the slug is unique
AdminCreate ==
  /\ \E caller \in Callers, slug \in CourseIds :
       IF ~EnsureAdmin(caller)
         THEN Rejected("create", caller, slug \in courses, "FORBIDDEN")
       ELSE IF slug \in courses
         THEN Rejected("create", caller, TRUE, "INTERNAL_SERVER_ERROR")
       ELSE /\ courses' = courses \cup {slug}
            /\ courseAudience' = [courseAudience EXCEPT ![slug] = NULL]
            /\ UNCHANGED <<chapters, lessons, completions>>
            /\ Answered("create", caller)
  /\ Tick
  /\ UNCHANGED <<lastCall, pageVars, home, verification, accessVars, raceVars>>

\* course.update of title, description, slug, language, poster
AdminUpdate ==
  /\ \E caller \in Callers, id \in CourseIds :
       IF ~EnsureAdmin(caller)
         THEN Rejected("update", caller, id \in courses, "FORBIDDEN")
       ELSE IF id \notin courses
         THEN Rejected("update", caller, FALSE, "INTERNAL_SERVER_ERROR")
       ELSE /\ UNCHANGED <<dbVars, completions>>
            /\ Answered("update", caller)
  /\ Tick
  /\ UNCHANGED <<lastCall, pageVars, home, verification, accessVars, raceVars>>

\* deleteCourse: any failure of course.delete becomes NOT_FOUND
AdminDeleteCourse ==
  /\ \E caller \in Callers, id \in CourseIds :
       IF ~EnsureAdmin(caller)
         THEN Rejected("deleteCourse", caller, id \in courses, "FORBIDDEN")
       ELSE IF id \notin courses
         THEN Rejected("deleteCourse", caller, FALSE, "NOT_FOUND")
       ELSE /\ CourseDelete(id)
            /\ Answered("deleteCourse", caller)
  /\ Tick
  /\ UNCHANGED <<lastCall, pageVars, home, verification, accessVars, raceVars>>

\* addLesson
AdminAddLesson ==
  /\ \E caller \in Callers, courseId \in {NULL, LearnCourse},
        chapterId \in {NULL} \cup ChapterUniverse, status \in AuthoredStatuses :
       IF ~EnsureAdmin(caller)
         THEN Rejected("addLesson", caller, TRUE, "FORBIDDEN")
       ELSE IF courseId = NULL /\ chapterId = NULL
         THEN Rejected("addLesson", caller, TRUE, "BAD_REQUEST")
       ELSE IF \/ courseId # NULL /\ courseId \notin courses
               \/ chapterId # NULL /\ ~ChapterExists(chapterId)
         THEN Rejected("addLesson", caller, FALSE, "INTERNAL_SERVER_ERROR")
       ELSE /\ AddLesson(courseId, chapterId, status,
                         NextOrder(courseId, chapterId))
            /\ UNCHANGED completions
            /\ Answered("addLesson", caller)
  /\ Tick
  /\ UNCHANGED <<lastCall, pageVars, home, verification, accessVars, raceVars>>

\* updateLesson: lesson.update, and once more without description when it throws.
\* The input is lessonBase.partial(), which has no courseId and no chapterId
\* key: z.object drops them from data, so the parents of a lesson stay as
\* addLesson set them (the chapterId of handleDrop is dropped as well)
AdminUpdateLesson ==
  /\ \E caller \in Callers, id \in LessonUniverse, status \in AuthoredStatuses :
       IF ~EnsureAdmin(caller)
         THEN Rejected("updateLesson", caller, LessonExists(id), "FORBIDDEN")
       ELSE IF ~LessonExists(id)
         THEN Rejected("updateLesson", caller, FALSE, "INTERNAL_SERVER_ERROR")
       ELSE /\ lessons' = {IF l.id = id THEN [l EXCEPT !.status = status]
                           ELSE l : l \in lessons}
            /\ UNCHANGED <<courses, courseAudience, chapters, completions>>
            /\ Answered("updateLesson", caller)
  /\ Tick
  /\ UNCHANGED <<lastCall, pageVars, home, verification, accessVars, raceVars>>

\* deleteLesson
AdminDeleteLesson ==
  /\ \E caller \in Callers, id \in LessonUniverse :
       IF ~EnsureAdmin(caller)
         THEN Rejected("deleteLesson", caller, LessonExists(id), "FORBIDDEN")
       ELSE IF ~LessonExists(id)
         THEN Rejected("deleteLesson", caller, FALSE, "INTERNAL_SERVER_ERROR")
       ELSE /\ LessonDelete(id)
            /\ Answered("deleteLesson", caller)
  /\ Tick
  /\ UNCHANGED <<lastCall, pageVars, home, verification, accessVars, raceVars>>

\* createChapter
AdminCreateChapter ==
  /\ \E caller \in Callers, courseId \in CourseIds :
       IF ~EnsureAdmin(caller)
         THEN Rejected("createChapter", caller, courseId \in courses,
                       "FORBIDDEN")
       ELSE IF courseId \notin courses
         THEN Rejected("createChapter", caller, FALSE, "INTERNAL_SERVER_ERROR")
       ELSE /\ CreateChapter(courseId,
                  Cardinality({c \in chapters : c.courseId = courseId}))
            /\ UNCHANGED completions
            /\ Answered("createChapter", caller)
  /\ Tick
  /\ UNCHANGED <<lastCall, pageVars, home, verification, accessVars, raceVars>>

\* updateChapter
AdminUpdateChapter ==
  /\ \E caller \in Callers, id \in ChapterUniverse, order \in 0..1 :
       IF ~EnsureAdmin(caller)
         THEN Rejected("updateChapter", caller, ChapterExists(id), "FORBIDDEN")
       ELSE IF ~ChapterExists(id)
         THEN Rejected("updateChapter", caller, FALSE, "INTERNAL_SERVER_ERROR")
       ELSE /\ chapters' = {IF c.id = id THEN [c EXCEPT !.order = order]
                            ELSE c : c \in chapters}
            /\ UNCHANGED <<courses, courseAudience, lessons, completions>>
            /\ Answered("updateChapter", caller)
  /\ Tick
  /\ UNCHANGED <<lastCall, pageVars, home, verification, accessVars, raceVars>>

\* deleteChapter: Lesson_chapterId_fkey ON DELETE CASCADE takes the lessons
AdminDeleteChapter ==
  /\ \E caller \in Callers, id \in ChapterUniverse :
       IF ~EnsureAdmin(caller)
         THEN Rejected("deleteChapter", caller, ChapterExists(id), "FORBIDDEN")
       ELSE IF ~ChapterExists(id)
         THEN Rejected("deleteChapter", caller, FALSE, "INTERNAL_SERVER_ERROR")
       ELSE /\ ChapterDelete(id)
            /\ Answered("deleteChapter", caller)
  /\ Tick
  /\ UNCHANGED <<lastCall, pageVars, home, verification, accessVars, raceVars>>

\* reorderChapters: one chapter.update per id, order = its index; an update of
\* a missing chapter throws, the other updates are applied all the same
AdminReorderChapters ==
  /\ \E caller \in Callers, ids \in SUBSET ChapterUniverse :
       \E chapterIds \in SeqsOf(ids) :
         IF ~EnsureAdmin(caller)
           THEN Rejected("reorderChapters", caller,
                         \A i \in 1..Len(chapterIds) : ChapterExists(chapterIds[i]),
                         "FORBIDDEN")
         ELSE /\ ChaptersReorder(chapterIds)
              /\ routerCall' =
                   [op |-> "reorderChapters", caller |-> caller,
                    found |-> \A i \in 1..Len(chapterIds) :
                                ChapterExists(chapterIds[i]),
                    error |-> IF \A i \in 1..Len(chapterIds) :
                                   ChapterExists(chapterIds[i])
                              THEN NULL ELSE "INTERNAL_SERVER_ERROR"]
  /\ Tick
  /\ UNCHANGED <<lastCall, pageVars, home, verification, accessVars, raceVars>>

\* bySlug (public): findUnique answers null for a slug without course
QueryBySlug ==
  /\ \E caller \in Callers, slug \in CourseIds :
       /\ routerCall' = [op |-> "bySlug", caller |-> caller,
                         found |-> slug \in courses, error |-> NULL]
       /\ \E c \in BySlug(slug) : (c = NoCourse) <=> (slug \notin courses)
  /\ Tick
  /\ UNCHANGED <<dbVars, completions, lastCall, pageVars, home, verification, accessVars, raceVars>>

NextAdmin ==
  \/ AdminCreate
  \/ AdminUpdate
  \/ AdminDeleteCourse
  \/ AdminAddLesson
  \/ AdminUpdateLesson
  \/ AdminDeleteLesson
  \/ AdminCreateChapter
  \/ AdminUpdateChapter
  \/ AdminDeleteChapter
  \/ AdminReorderChapters
  \/ QueryBySlug

SpecAdmin == InitStore /\ [][NextAdmin]_vars

\* ----------------------------------- middleware and page guards of /dashboard
\* A pathname is a text whose letters are "/", "." and whole words.
MaxPathLen == 4

\* the segments a requested path is made of
PathSegments ==
  {<<"dashboard">>, <<"course">>, <<"settings">>, <<"x">>, <<"x", ".", "x">>,
   <<"_next">>, <<"api">>, <<"auth">>}

\* the query strings of a request: none, or "?x"
Searches == {<<>>, <<"?", "x">>}

\* the words that consist of letters and digits only
AlnumWords == {"dashboard", "course", "settings", "x", "api", "auth"}

PathsUpTo(n) == UNION {[1..k -> PathSegments] : k \in 1..n}

\* req.nextUrl.pathname of a request for the segments
RECURSIVE PathnameOf(_)
PathnameOf(segments) ==
  IF segments = <<>> THEN <<>>
  ELSE <<"/">> \o Head(segments) \o PathnameOf(Tail(segments))

\* String.prototype.startsWith
StartsWith(text, prefix) ==
  Len(text) >= Len(prefix) /\ SubSeq(text, 1, Len(prefix)) = prefix

\* /\.[a-zA-Z0-9]+$/.test(text)
EndsWithExtension(text) ==
  \E i \in 1..(Len(text) - 1) :
    /\ text[i] = "."
    /\ \A j \in (i + 1)..Len(text) : text[j] \in AlnumWords

ADMIN_GUARDED_PREFIXES == {<<"/", "dashboard">>}

\* isProtectedPath: build assets, NextAuth routes and paths that end in an
\* extension are not checked; of the rest, the guarded prefixes and sub-paths
IsProtectedPath(pathname) ==
  IF \/ StartsWith(pathname, <<"/", "_next">>)
     \/ StartsWith(pathname, <<"/", "api", "/", "auth">>)
     \/ EndsWithExtension(pathname)
  THEN FALSE
  ELSE \E p \in ADMIN_GUARDED_PREFIXES :
         pathname = p \/ StartsWith(pathname, p \o <<"/">>)

\* config.matcher "/dashboard/:path*": the paths the middleware is run for
MatcherMatches(pathname) ==
  \/ pathname = <<"/", "dashboard">>
  \/ StartsWith(pathname, <<"/", "dashboard", "/">>)

\* the responses: a redirect, a rendered page, the request passed on, no page
RedirectTo(location, callbackUrl) ==
  [kind |-> "redirect", page |-> NULL, location |-> location,
   callbackUrl |-> callbackUrl]
Rendered(page) ==
  [kind |-> "render", page |-> page, location |-> <<>>, callbackUrl |-> Absent]
PassedOn ==
  [kind |-> "next", page |-> NULL, location |-> <<>>, callbackUrl |-> Absent]
NoPage ==
  [kind |-> "none", page |-> NULL, location |-> <<>>, callbackUrl |-> Absent]

\* middleware(req), email being the email of the session user or NULL
Middleware(pathname, search, email) ==
  IF ~IsProtectedPath(pathname) THEN PassedOn
  ELSE IF email = NULL
    THEN RedirectTo(<<"/", "signin">>, Present(pathname \o search))
  ELSE IF ~IsAdminEmail(email) THEN RedirectTo(<<"/">>, Absent)
  ELSE PassedOn

\* app/dashboard/page.tsx
DashboardPage(email) ==
  IF email = NULL THEN RedirectTo(<<"/", "signin">>, Absent)
  ELSE IF ~IsAdminEmail(email) THEN RedirectTo(<<"/">>, Absent)
  ELSE Rendered("DashboardPage")

\* app/dashboard/course/[slug]/page.tsx; found: a course has the slug
CourseDashboardPage(email, found) ==
  IF email = NULL THEN RedirectTo(<<"/", "signin">>, Absent)
  ELSE IF ~IsAdminEmail(email) THEN RedirectTo(<<"/">>, Absent)
  ELSE IF ~found THEN RedirectTo(<<"/", "dashboard">>, Absent)
  ELSE Rendered("CourseDashboardPage")

\* app/dashboard/course/[slug]/settings/page.tsx
CourseSettingsPage(email, found) ==
  IF email = NULL THEN RedirectTo(<<"/", "signin">>, Absent)
  ELSE IF ~IsAdminEmail(email) THEN RedirectTo(<<"/">>, Absent)
  ELSE IF ~found THEN RedirectTo(<<"/", "dashboard">>, Absent)
  ELSE Rendered("CourseSettingsPage")

\* the page of app/dashboard that serves the segments, if there is one
DashboardRoute(segments, email, found) ==
  IF segments = <<<<"dashboard">>>> THEN DashboardPage(email)
  ELSE IF /\ Len(segments) = 3
          /\ SubSeq(segments, 1, 2) = <<<<"dashboard">>, <<"course">>>>
    THEN CourseDashboardPage(email, found)
  ELSE IF /\ Len(segments) = 4
          /\ SubSeq(segments, 1, 2) = <<<<"dashboard">>, <<"course">>>>
          /\ segments[4] = <<"settings">>
    THEN CourseSettingsPage(email, found)
  ELSE NoPage

\* the response to a request: the middleware's where it is run and does not
\* pass the request on, else the page's
ResponseTo(segments, search, email, found) ==
  LET pathname == PathnameOf(segments)
      gate == IF MatcherMatches(pathname)
                THEN Middleware(pathname, search, email)
                ELSE PassedOn
  IN IF gate.kind = "redirect" THEN gate
     ELSE DashboardRoute(segments, email, found)

\* a browser requests a path, with or without a session
RequestPath ==
  /\ ~gateCall.done
  /\ \E segments \in PathsUpTo(MaxPathLen), search \in Searches,
        email \in Callers, found \in BOOLEAN :
       gateCall' = [done |-> TRUE, segments |-> segments,
                    pathname |-> PathnameOf(segments), search |-> search,
                    email |-> email, found |-> found,
                    response |-> ResponseTo(segments, search, email, found)]
  /\ UNCHANGED <<dbVars, storeVars, pageVars, home, verification, routerCall,
                 adminCheck, raceVars>>

NextGateway == RequestPath

SpecGateway == InitStore /\ [][NextGateway]_vars

\* ------------------------------------------- course manager: chapter handling
\* the administrator who uses the course manager
TheAdmin == CHOOSE e \in Emails : IsAdminEmail(e)

\* chaptersSorted: listChapters of the course (ORDER BY order), sorted by order
ChaptersSorted(courseId) ==
  {SortByOrder(q) : q \in OrderByAsc({c \in chapters : c.courseId = courseId})}

IdsOf(s) == [i \in 1..Len(s) |-> s[i].id]

\* Array.prototype.findIndex on ids (1-based, 0 when absent)
IndexOfId(ids, id) ==
  IF \E i \in 1..Len(ids) : ids[i] = id
  THEN CHOOSE i \in 1..Len(ids) : ids[i] = id /\ \A j \in 1..(i - 1) : ids[j] # id
  ELSE 0

RECURSIVE WithoutId(_, _)
\* filter((id) => id !== draggedId)
WithoutId(ids, id) ==
  IF ids = <<>> THEN <<>>
  ELSE IF Head(ids) = id THEN WithoutId(Tail(ids), id)
  ELSE <<Head(ids)>> \o WithoutId(Tail(ids), id)

\* Array.prototype.splice(index, 0, x), index 0-based
SpliceIn(ids, index, x) ==
  LET at == IF index > Len(ids) THEN Len(ids) ELSE index
  IN  SubSeq(ids, 1, at) \o <<x>> \o SubSeq(ids, at + 1, Len(ids))

\* a drop position taken after the dragged chapter has been removed
HandleChapterReorderLate(sorted, draggedId, dropId) ==
  LET rest == WithoutId(IdsOf(sorted), draggedId)
  IN  SpliceIn(rest, IndexOfId(rest, dropId) - 1, draggedId)

\* handleChapterReorder for a dragged chapter: the list it submits
HandleChapterReorder(sorted, draggedId, dropId) ==
  LET dropIndex == IndexOfId(IdsOf(sorted), dropId) - 1
      newOrder == WithoutId(IdsOf(sorted), draggedId)
  IN  SpliceIn(newOrder, dropIndex, draggedId)

\* handleChapterFormSubmit without editingChapterId: the new chapter's order is
\* the number of chapters shown
ManagerCreateChapter ==
  /\ Cardinality(chapters) < MaxManagedChapters
  /\ \E sorted \in ChaptersSorted(LearnCourse) :
       ChapterCreate(LearnCourse, Len(sorted))
  /\ Answered("createChapter", TheAdmin)
  /\ UNCHANGED <<storeVars, pageVars, home, verification, accessVars, raceVars>>

\* handleDeleteChapter, confirmed
ManagerDeleteChapter ==
  /\ \E c \in chapters :
       ChapterDelete(c.id) /\ Answered("deleteChapter", TheAdmin)
  /\ UNCHANGED <<clock, lastCall, pageVars, home, verification, accessVars,
                 raceVars>>

\* handleChapterReorder: chapter draggedId is dropped onto chapter dropId
ManagerReorderChapters ==
  /\ \E sorted \in ChaptersSorted(LearnCourse) :
       \E draggedId \in {c.id : c \in chapters},
          dropId \in {c.id : c \in chapters} :
         /\ draggedId # dropId
         /\ IndexOfId(IdsOf(sorted), draggedId) # 0
         /\ IndexOfId(IdsOf(sorted), dropId) # 0
         /\ LET newOrder == HandleChapterReorder(sorted, draggedId, dropId)
            IN  /\ ChaptersReorder(newOrder)
                /\ routerCall' =
                     [op |-> "reorderChapters", caller |-> TheAdmin,
                      found |-> TRUE, error |-> NULL,
                      shown |-> IdsOf(sorted), draggedId |-> draggedId,
                      dropId |-> dropId, chapterIds |-> newOrder]
  /\ UNCHANGED <<clock, lastCall, pageVars, home, verification, accessVars,
                 raceVars>>

NextManager ==
  \/ ManagerCreateChapter
  \/ ManagerDeleteChapter
  \/ ManagerReorderChapters

SpecManager == InitStore /\ [][NextManager]_vars

\* -------------------------------- specification of deletions in the catalogue
\* an administrator gives courses chapters and lessons, the learner completes
\* lessons, and the administrator deletes courses, chapters and lessons
CatalogueAddChapter ==
  /\ \E courseId \in courses : CreateChapter(courseId, 0)
  /\ UNCHANGED <<storeVars, pageVars, requestVars>>

CatalogueAddLesson ==
  /\ \E courseId \in {NULL, LearnCourse},
        chapterId \in {NULL} \cup {c.id : c \in chapters} :
       AddLesson(courseId, chapterId, "PUBLISHED", 0)
  /\ UNCHANGED <<storeVars, pageVars, requestVars>>

CatalogueComplete ==
  /\ \E l \in lessons :
       /\ ~HasCompletion(completions, Learner, l.id)
       /\ completions' = UpsertCompletion(completions, Learner, l.id, clock)
  /\ UNCHANGED <<clock, lastCall, dbVars, pageVars, requestVars>>

CatalogueDeleteCourse ==
  /\ \E id \in courses :
       CourseDelete(id) /\ Answered("deleteCourse", TheAdmin)
  /\ UNCHANGED <<clock, lastCall, pageVars, home, verification, accessVars,
                 raceVars>>

CatalogueDeleteChapter ==
  /\ \E c \in chapters :
       ChapterDelete(c.id) /\ Answered("deleteChapter", TheAdmin)
  /\ UNCHANGED <<clock, lastCall, pageVars, home, verification, accessVars,
                 raceVars>>

CatalogueDeleteLesson ==
  /\ \E l \in lessons :
       LessonDelete(l.id) /\ Answered("deleteLesson", TheAdmin)
  /\ UNCHANGED <<clock, lastCall, pageVars, home, verification, accessVars,
                 raceVars>>

NextDeletions ==
  \/ CatalogueAddChapter
  \/ CatalogueAddLesson
  \/ CatalogueComplete
  \/ CatalogueDeleteCourse
  \/ CatalogueDeleteChapter
  \/ CatalogueDeleteLesson

SpecDeletions == InitStore /\ [][NextDeletions]_vars

\* ====================================================================== claims
\* what the Access Gate of the specification allows: the first lesson of the
\* resolved sequence, or a signed-in viewer on a FREE course or with a
\* subscription
GateAllows(id) ==
  id = firstLessonId \/ (isAuthed /\ (isFreeCourse \/ isCustomer))

\* the PUBLISHED lessons reachable from the course: in one of its chapters or
\* directly on the course
ReachablePublished(courseId) ==
  {l \in lessons :
     /\ l.status = "PUBLISHED"
     /\ \/ l.courseId = courseId
        \/ \E c \in chapters : c.courseId = courseId /\ c.id = l.chapterId}

\* the place of a lesson in the specified order: chapter lessons first, by
\* chapter order then lesson order; standalone lessons after them, by order
ChapterOrderOf(l) == (CHOOSE c \in chapters : c.id = l.chapterId).order
ComesBeforeOrWith(a, b) ==
  IF a.chapterId # NULL /\ b.chapterId # NULL
  THEN \/ ChapterOrderOf(a) < ChapterOrderOf(b)
       \/ ChapterOrderOf(a) = ChapterOrderOf(b) /\ a.order <= b.order
  ELSE IF a.chapterId = NULL /\ b.chapterId = NULL THEN a.order <= b.order
  ELSE a.chapterId # NULL

\* C1: the resolved lesson sequence of the loaded course holds exactly the
\* PUBLISHED lessons reachable from the course, each once, ordered by chapter
\* order, then lesson order, then the standalone lessons by order.
C1_ResolvedSequenceExact ==
  pageOpen =>
    LET ls == ResolvedLessons(course)
    IN  /\ \A i, j \in 1..Len(ls) : i # j => ls[i].id # ls[j].id
        /\ Ids(ls) = {l.id : l \in ReachablePublished(course.id)}
        /\ \A i, j \in 1..Len(ls) :
             i < j => ComesBeforeOrWith(LessonById(ls[i].id), LessonById(ls[j].id))

\* C2: the first lesson of the resolved sequence is never locked, for every
\* viewer and audience, and a click on it never ends on the locked panel.
C2_FirstLessonNeverLocked ==
  (pageOpen /\ totalLessons > 0) =>
    /\ ~Locked(ResolvedLessons(course)[1].id)
    /\ lockedAttempt # ResolvedLessons(course)[1].id

\* C2 witness: an anonymous viewer of a premium course has the first lesson, a
\* chapter lesson, open after clicking it, with a second lesson behind it
C2_Witness ==
  /\ pageOpen /\ ~isAuthed /\ ~isFreeCourse
  /\ Cardinality(Ids(ResolvedLessons(course))) >= 2
  /\ firstLessonId \in SidebarChapterIds(course.chapters)
  /\ urlLesson = firstLessonId /\ displayed = firstLessonId

\* C3: for an anonymous viewer every lesson of the resolved sequence but the
\* first is locked, the reason is "auth", and the locked panel asks to sign in.
C3_AnonymousDeniedWithAuth ==
  (pageOpen /\ ~isAuthed) =>
    /\ \A id \in Ids(ResolvedLessons(course)) \ {firstLessonId} :
         Locked(id) /\ LockReason = "auth"
    /\ lockedAttempt # NULL =>
         needsAuth /\ LockedPanelHeading = "Sign In Required"

\* C3 witness: an anonymous viewer of a premium course clicked a later lesson
\* and got the locked panel
C3_Witness ==
  /\ pageOpen /\ ~isAuthed /\ ~isFreeCourse
  /\ lockedAttempt \in Ids(ResolvedLessons(course)) \ {firstLessonId}

\* C4: on a FREE course no lesson of the resolved sequence is locked for a
\* signed-in viewer, subscribed or not, and no click ends on the locked panel.
C4_FreeCourseOpenToSignedIn ==
  (pageOpen /\ isFreeCourse /\ isAuthed) =>
    /\ \A id \in Ids(ResolvedLessons(course)) : ~Locked(id)
    /\ lockedAttempt = NULL

\* C4 witness: a signed-in viewer without subscription has a later lesson of a
\* FREE course open after clicking it
C4_Witness ==
  /\ pageOpen /\ isFreeCourse /\ isAuthed /\ ~isCustomer
  /\ displayed # NULL /\ displayed # firstLessonId /\ urlLesson = displayed

\* C5: on a premium course a signed-in viewer without subscription has every
\* lesson but the first locked, with reason "subscription", and the locked
\* panel asks for the subscription.
C5_PremiumDeniedWithSubscription ==
  (pageOpen /\ ~isFreeCourse /\ isAuthed /\ ~isCustomer) =>
    /\ \A id \in Ids(ResolvedLessons(course)) \ {firstLessonId} :
         Locked(id) /\ LockReason = "subscription"
    /\ totalLessons > 0 => ~Locked(firstLessonId)
    /\ lockedAttempt # NULL =>
         /\ needsSubscription
         /\ LockedPanelHeading = "CreatiFun Subscription Required"

\* C5 witness: a signed-in viewer without subscription clicked a later lesson
\* of a premium course and got the locked panel
C5_Witness ==
  /\ pageOpen /\ ~isFreeCourse /\ isAuthed /\ ~isCustomer
  /\ lockedAttempt \in Ids(ResolvedLessons(course)) \ {firstLessonId}

\* C6: the lesson whose content is displayed is always one the Access Gate
\* allows for the current viewer.
C6_DisplayedLessonAllowed ==
  displayed # NULL => GateAllows(displayed)

\* C7: only PUBLISHED lessons are visible on the learner page: in the sidebar,
\* in the lesson total, and as the displayed lesson.
C7_OnlyPublishedVisible ==
  pageOpen =>
    /\ \A id \in SidebarIds(course) : LessonById(id).status = "PUBLISHED"
    /\ \A id \in Ids(ResolvedLessons(course)) :
         LessonById(id).status = "PUBLISHED"
    /\ displayed # NULL => LessonById(displayed).status = "PUBLISHED"

\* C8: markLessonCompleted on a pair that is already completed succeeds and
\* leaves the user's completed set of every course unchanged in membership.
C8_MarkIdempotent ==
  (/\ lastCall.op = "mark"
   /\ HasCompletion(lastCall.before, lastCall.userId, lastCall.lessonId)) =>
    /\ lastCall.ok
    /\ \A c \in CourseIds :
         GetLessonCompletions(lastCall.userId, c)
           = CompletedIn(lastCall.before, lastCall.userId, c)

\* C8 witness: the last call marked a pair whose completion an earlier call
\* had created, and the user has that lesson in the completed set
C8_Witness ==
  /\ lastCall.op = "mark"
  /\ HasCompletion(lastCall.before, lastCall.userId, lastCall.lessonId)
  /\ \E c \in CourseIds :
       lastCall.lessonId \in GetLessonCompletions(lastCall.userId, c)

\* the last call was a successful mark of a pair not completed before it
JustMarkedNew ==
  /\ lastCall.op = "mark" /\ lastCall.ok
  /\ ~HasCompletion(lastCall.before, lastCall.userId, lastCall.lessonId)

\* C9: a mark of a pair not completed, followed by the unmark of the same pair,
\* restores exactly the store the mark started from.
C9_MarkUnmarkRoundTrip ==
  [][(/\ JustMarkedNew
      /\ clock' # clock
      /\ lastCall'.op = "unmark"
      /\ lastCall'.userId = lastCall.userId
      /\ lastCall'.lessonId = lastCall.lessonId)
     => completions' = lastCall.before]_vars

\* C9 witness: the last call unmarked a pair that the call before it had
\* newly completed, while other completions exist
C9_Witness ==
  /\ lastCall.op = "unmark"
  /\ \E c \in lastCall.before :
       /\ c.userId = lastCall.userId /\ c.lessonId = lastCall.lessonId
       /\ c.completedAt = clock - 2
  /\ completions # {}

\* C10: unmarkLessonCompleted on a pair without completion succeeds and leaves
\* the completion store unchanged.
C10_UnmarkMissingIsNoOp ==
  (/\ lastCall.op = "unmark"
   /\ ~HasCompletion(lastCall.before, lastCall.userId, lastCall.lessonId)) =>
    /\ lastCall.ok
    /\ completions = lastCall.before

\* C10 witness: the last call unmarked a pair without completion while the
\* store held completions of that lesson and of that user
C10_Witness ==
  /\ lastCall.op = "unmark"
  /\ ~HasCompletion(lastCall.before, lastCall.userId, lastCall.lessonId)
  /\ \E c \in completions : c.lessonId = lastCall.lessonId
  /\ \E c \in completions : c.userId = lastCall.userId

\* a lesson is within a course when the course is its parent or the parent of
\* its chapter
WithinCourse(l, courseId) ==
  \/ l.courseId = courseId
  \/ \E c \in chapters : c.id = l.chapterId /\ c.courseId = courseId

\* C11: getLessonCompletions(courseId) returns exactly the ids of the lessons
\* within the course that the calling user has completed, the lessons of the
\* course's chapters included, and nothing of another course or user.
C11_CompletionsOfCourseExact ==
  \A u \in Users, c \in CourseIds :
    GetLessonCompletions(u, c) =
      {d.lessonId : d \in {e \in completions :
          /\ e.userId = u
          /\ LessonExists(e.lessonId)
          /\ WithinCourse(LessonById(e.lessonId), c)}}

\* the lessons of the resolved sequence that are in the completed set shown
SequenceCompletedCount ==
  Cardinality(Ids(ResolvedLessons(course)) \cap optimisticIds)

\* C12: the progress shown is round(100 * completedCount / len(sequence)),
\* completedCount counting only the lessons of the resolved sequence that are
\* in the viewer's completed set, and 0 for the empty sequence.
C12_ProgressCountsSequenceOnly ==
  pageOpen =>
    progressPercent =
      IF totalLessons = 0 THEN 0
      ELSE RoundDiv(100 * SequenceCompletedCount, totalLessons)

Quiescent == pageOpen /\ ~refetchPending

\* the page shows the Completion Store's set of the viewer and the course, with
\* no optimistic overlay
ShowsStoreSet ==
  /\ pageOpen
  /\ optimisticCompletedIds.isNull
  /\ completedLessonIds = GetLessonCompletions(session.user, course.id)

\* C14: once no mark or unmark request is pending (nothing further will reach
\* the page on its own), the completed set the page shows equals the store's
\* set, the optimistic overlay cleared.
C14_NoStaleCompletedSet == Quiescent => ShowsStoreSet

\* the course a lesson is within
CourseOfLesson(l) ==
  IF l.courseId # NULL THEN l.courseId
  ELSE (CHOOSE c \in chapters : c.id = l.chapterId).courseId

\* the published lessons the viewer has not completed
IncompleteFor(u) ==
  {l \in lessons :
     l.status = "PUBLISHED" /\ ~HasCompletion(completions, u, l.id)}

\* the viewer's completions of published lessons
PublishedCompletionsOf(u) ==
  {c \in completions :
     /\ c.userId = u
     /\ \E l \in lessons : l.id = c.lessonId /\ l.status = "PUBLISHED"}

\* the first course of the traversal that has a lesson the viewer has not
\* completed
FirstCourseWithIncomplete(u, keys) ==
  keys[CHOOSE i \in 1..Len(keys) :
         /\ \E l \in IncompleteFor(u) : CourseOfLesson(l) = keys[i]
         /\ \A j \in 1..(i - 1) :
              ~\E l \in IncompleteFor(u) : CourseOfLesson(l) = keys[j]]

\* C15: with a published lesson the signed-in viewer has not completed, the
\* resolver returns the first course of the traversal that has one, with that
\* course's first not-completed lesson in the course's lesson order (chapter
\* lessons in chapter order, then standalone lessons).
C15_ContinueAtFirstIncomplete ==
  (home.rendered /\ home.viewer # NULL /\ IncompleteFor(home.viewer) # {}) =>
    LET u == home.viewer
        k == FirstCourseWithIncomplete(u, MapKeys(home.rows))
        open == {l \in IncompleteFor(u) : CourseOfLesson(l) = k}
    IN  /\ home.target.slug = k
        /\ \E l \in open :
             /\ l.id = home.target.lessonId
             /\ \A m \in open :
                  ComesBeforeOrWith(m, l) => ComesBeforeOrWith(l, m)

\* C16: with every published lesson completed and at least one completion,
\* the resolver returns the course of the lesson completed last, and no lesson.
C16_FallbackToLatestCompletion ==
  (/\ home.rendered /\ home.viewer # NULL
   /\ IncompleteFor(home.viewer) = {}
   /\ PublishedCompletionsOf(home.viewer) # {}) =>
    LET latest == CHOOSE c \in PublishedCompletionsOf(home.viewer) :
                    \A d \in PublishedCompletionsOf(home.viewer) :
                      d.completedAt <= c.completedAt
    IN  /\ home.target.lessonId = NULL
        /\ home.target.slug = CourseOfLesson(LessonById(latest.lessonId))

\* the viewer has no completion of any lesson
NoCompletionsOf(u) == \A c \in completions : c.userId # u

AdminOps ==
  {"create", "update", "deleteCourse", "addLesson", "updateLesson",
   "deleteLesson", "createChapter", "updateChapter", "deleteChapter",
   "reorderChapters"}

\* C19: an admin-only mutation called by a user whose email is not on the
\* allow-list is rejected with FORBIDDEN and leaves courses, chapters, lessons
\* and completions unchanged.
C19_NonAdminForbidden ==
  [][(routerCall'.op \in AdminOps /\ routerCall'.caller \notin AdminEmails)
       => /\ routerCall'.error = "FORBIDDEN"
          /\ UNCHANGED <<dbVars, completions>>]_vars

\* C19 witness: a user not on the allow-list called deleteCourse on an
\* existing course that has a chapter and a lesson, and was refused
C19_Witness ==
  /\ routerCall.op = "deleteCourse" /\ routerCall.caller = "bob@x"
  /\ routerCall.found /\ routerCall.error = "FORBIDDEN"
  /\ chapters # {} /\ lessons # {}

\* the calls that name one course, chapter or lesson by id or slug
LookupOps ==
  {"bySlug", "deleteCourse", "deleteLesson", "deleteChapter", "updateLesson",
   "updateChapter"}

\* C20: a call that names a course, chapter or lesson that does not exist is
\* answered with a NotFound error, and nothing is changed.
C20_MissingIsNotFound ==
  [][(/\ routerCall'.op \in LookupOps
      /\ ~routerCall'.found
      /\ routerCall'.op = "bySlug" \/ routerCall'.caller \in AdminEmails)
       => /\ routerCall'.error = "NOT_FOUND"
          /\ UNCHANGED <<dbVars, completions>>]_vars

\* two characters are the same letter, case aside
SameLetter(x, y) == x = y \/ {x, y} = {"a", "A"}

\* positions i..j of the list are one of its comma-separated entries
IsEntry(r, i, j) ==
  /\ i = 1 \/ r[i - 1] = ","
  /\ j = Len(r) \/ r[j + 1] = ","
  /\ \A k \in i..j : r[k] # ","

\* positions p..q are what is left of the entry i..j without the blanks
\* around it, and the text equals it case-insensitively
MatchesEntry(r, i, j, t) ==
  \E p \in i..j, q \in i..j :
    /\ p <= q /\ r[p] # " " /\ r[q] # " "
    /\ \A k \in (i..(p - 1)) \cup ((q + 1)..j) : r[k] = " "
    /\ Len(t) = q - p + 1
    /\ \A k \in 1..Len(t) : SameLetter(t[k], r[p + k - 1])

OnAllowList(raw, email) ==
  /\ raw.present /\ email.present /\ email.text # <<>>
  /\ \E i \in 1..Len(raw.text), j \in 1..Len(raw.text) :
       i <= j /\ IsEntry(raw.text, i, j) /\ MatchesEntry(raw.text, i, j, email.text)

\* C21: isAdminEmail(email) is true exactly when the email equals, case aside,
\* one of the comma-separated entries of ADMIN_EMAILS (trimmed, empty entries
\* ignored); no email, an empty email, or a missing or empty list gives false.
C21_AdminEmailCaseInsensitive ==
  adminCheck.done =>
    (adminCheck.result <=> OnAllowList(adminCheck.raw, adminCheck.email))

\* C21 witness: an upper-case email passed against a padded lower-case entry
\* that follows an empty one
C21_Witness ==
  /\ adminCheck.done /\ adminCheck.result
  /\ adminCheck.raw = Present(<<",", " ", "a">>)
  /\ adminCheck.email = Present(<<"A">>)

\* both tabs have finished a call for the same user and lesson
AllCallsFinished ==
  /\ \A t \in Tabs : tabs[t].pc = "done"
  /\ \A t1 \in Tabs, t2 \in Tabs :
       tabs[t1].userId = tabs[t2].userId /\ tabs[t1].lessonId = tabs[t2].lessonId

\* C22: whatever the interleaving of the mark and unmark calls of several tabs
\* for one (user, lesson) pair, every call completes without error, and once
\* all have finished the pair is completed exactly when the last write applied
\* was a mark.
C22_ConcurrentCallsAbsorbed ==
  AllCallsFinished =>
    LET u == tabs["t1"].userId
        l == tabs["t1"].lessonId
    IN  /\ \A t \in Tabs : tabs[t].ok
        /\ HasCompletion(completions, u, l) <=> (lastWrite[<<u, l>>] = "mark")

\* C23: in every reachable state each completion references an existing lesson
\* and user, each chapter an existing course, and each lesson an existing
\* parent (its course, when it names one, and its chapter, when it names one).
C23_ReferentialIntegrity ==
  /\ \A c \in completions : LessonExists(c.lessonId) /\ c.userId \in Users
  /\ \A c \in chapters : c.courseId \in courses
  /\ \A l \in lessons :
       /\ l.courseId # NULL \/ l.chapterId # NULL
       /\ l.courseId # NULL => l.courseId \in courses
       /\ l.chapterId # NULL => ChapterExists(l.chapterId)

\* C23 witness: a chapter was deleted with the first lesson created, and the
\* second lesson is left with its completion
C23_Witness ==
  /\ routerCall.op = "deleteChapter" /\ routerCall.error = NULL
  /\ chapters = {} /\ FreshLessonNo = 1
  /\ Cardinality(lessons) = 1 /\ Cardinality(completions) = 1

\* C24: every lesson belongs to exactly one parent, directly to a course or to
\* a chapter, never to both and never to neither.
C24_LessonHasOneParent ==
  \A l \in lessons : (l.courseId = NULL) # (l.chapterId = NULL)

\* C25: no two chapters of the same course have the same order value.
C25_ChapterOrderUnique ==
  \A c1 \in chapters, c2 \in chapters :
    (c1.courseId = c2.courseId /\ c1.order = c2.order) => c1.id = c2.id

\* the position of an id in a list of ids
PositionIn(ids, id) == CHOOSE i \in 1..Len(ids) : ids[i] = id

\* the course manager has just submitted a chapter drop
DropSubmitted ==
  routerCall.op = "reorderChapters" /\ routerCall.caller = TheAdmin

\* C30: dropping chapter X onto another chapter Y submits a permutation of the
\* course's chapter ids in which X has the index Y had before and the other
\* chapters keep their relative order, and after reorderChapters the chapters
\* have the orders 0..n-1 in the submitted order.
C30_DropSubmitsPermutation ==
  DropSubmitted =>
    LET before == routerCall.shown
        sub == routerCall.chapterIds
        X == routerCall.draggedId
        Y == routerCall.dropId
        others == {before[i] : i \in 1..Len(before)} \ {X}
    IN  /\ Len(sub) = Len(before)
        /\ {sub[i] : i \in 1..Len(sub)} = {before[i] : i \in 1..Len(before)}
        /\ \A i \in 1..Len(sub), j \in 1..Len(sub) : sub[i] = sub[j] => i = j
        /\ {sub[i] : i \in 1..Len(sub)} =
             {c.id : c \in {d \in chapters : d.courseId = LearnCourse}}
        /\ sub[PositionIn(before, Y)] = X
        /\ \A a \in others, b \in others :
             PositionIn(before, a) < PositionIn(before, b)
               => PositionIn(sub, a) < PositionIn(sub, b)
        /\ \A i \in 1..Len(sub) :
             \E c \in chapters : c.id = sub[i] /\ c.order = i - 1

\* C30 witness: the first of three chapters was dropped onto the last one
C30_Witness ==
  /\ DropSubmitted
  /\ Len(routerCall.shown) = 3
  /\ routerCall.draggedId = routerCall.shown[1]
  /\ routerCall.dropId = routerCall.shown[3]
  /\ routerCall.chapterIds =
       <<routerCall.shown[2], routerCall.shown[3], routerCall.shown[1]>>

\* C28: after deleteChapter every lesson that was in the chapter still exists
\* and is a standalone lesson of the chapter's course.
C28_DeleteChapterKeepsLessons ==
  [][(routerCall'.op = "deleteChapter" /\ routerCall'.error = NULL)
       => \A k \in chapters \ chapters', l \in lessons :
            l.chapterId = k.id =>
              \E m \in lessons' :
                m.id = l.id /\ m.chapterId = NULL /\ m.courseId = k.courseId]_vars

\* the call that failed, sent again now, is answered with success
SameCallSucceeds ==
  \/ /\ lastCall.op = "mark"
     /\ MarkLessonCompleted(lastCall.userId, lastCall.lessonId)
     /\ lastCall'.ok
  \/ /\ lastCall.op = "unmark"
     /\ UnmarkLessonCompleted(lastCall.userId, lastCall.lessonId)
     /\ lastCall'.ok

\* C26: when the database operation behind markLessonCompleted or
\* unmarkLessonCompleted fails, the caller gets the error, the server has sent
\* the statement once only, the Completion Store is as it was, and the same
\* call sent again can succeed (for a lesson that exists).
C26_FailureSurfacedNoRetry ==
  (lastCall.op \in {"mark", "unmark"} /\ (lastCall.dbDown \/ ~lastCall.ok)) =>
    /\ ~lastCall.ok
    /\ lastCall.statements = 1
    /\ completions = lastCall.before
    /\ (lastCall.dbDown /\ LessonExists(lastCall.lessonId))
         => ENABLED SameCallSucceeds

\* C26 witness: a mark of an existing lesson failed while the store held
\* another completion
C26_Witness ==
  /\ lastCall.op = "mark" /\ lastCall.dbDown /\ ~lastCall.ok
  /\ LessonExists(lastCall.lessonId)
  /\ ~HasCompletion(completions, lastCall.userId, lastCall.lessonId)
  /\ completions # {}

\* C29: markLessonCompleted and unmarkLessonCompleted act on the pair (calling
\* user, given lesson) only: every completion of another user or of another
\* lesson is there after the call exactly as before it.
C29_OnlyTheCallersPair ==
  [][lastCall'.op \in {"mark", "unmark"}
       => \A c \in completions \cup completions' :
            ~(c.userId = lastCall'.userId /\ c.lessonId = lastCall'.lessonId)
              => (c \in completions /\ c \in completions')]_vars

\* C29 witness: a user has unmarked a lesson he had completed, and another
\* user's completion of the same lesson is still there
C29_Witness ==
  /\ lastCall.op = "unmark" /\ lastCall.ok
  /\ HasCompletion(lastCall.before, lastCall.userId, lastCall.lessonId)
  /\ ~HasCompletion(completions, lastCall.userId, lastCall.lessonId)
  /\ \E c \in completions :
       c.lessonId = lastCall.lessonId /\ c.userId # lastCall.userId

\* the request is for /dashboard or a path below it
IsDashboardRequest ==
  gateCall.done /\ gateCall.segments[1] = <<"dashboard">>

\* C27: a request for /dashboard or a sub-path renders an admin page only for
\* a signed-in user on the allow-list; without session it is redirected to
\* /signin with the requested path as callbackUrl, and with a session of a
\* user who is not on the list it is redirected to /.
C27_DashboardGate ==
  IsDashboardRequest =>
    /\ gateCall.response.kind = "render" => IsAdminEmail(gateCall.email)
    /\ gateCall.email = NULL =>
         gateCall.response =
           RedirectTo(<<"/", "signin">>,
                      Present(gateCall.pathname \o gateCall.search))
    /\ (gateCall.email # NULL /\ ~IsAdminEmail(gateCall.email)) =>
         gateCall.response = RedirectTo(<<"/">>, Absent)

====
